---- MODULE Spec2Model ----
(***************************************************************************)
(* Model of pygmsh/built_in/geometry.py: the Geometry builder on top of    *)
(* the gmsh kernel.  The Geometry object's fields are the variables in     *)
(* capital letters; the gmsh_* variables are the process-wide kernel, seen *)
(* through the calls the builder makes; call/result record the builder     *)
(* call that ran last and its outcome.                                     *)
(*                                                                         *)
(* Python values are tagged records: [t |-> "None"], [t |-> "int", v |-> n], *)
(* [t |-> "str", v |-> s], [t |-> "list", v |-> <<...>>], [t |-> "float"]. *)
(* An entity object is a record [kind, dimension, ID].                     *)
(***************************************************************************)
EXTENDS Integers, Sequences, FiniteSets, TLC

VARIABLES
    BOOLEAN_ID,                \* self._BOOLEAN_ID
    ARRAY_ID,                  \* self._ARRAY_ID
    FIELD_ID,                  \* self._FIELD_ID
    TAKEN_PHYSICALGROUP_IDS,   \* self._TAKEN_PHYSICALGROUP_IDS
    COMPOUND_ENTITIES,         \* self._COMPOUND_ENTITIES
    RECOMBINE_ENTITIES,        \* self._RECOMBINE_ENTITIES
    EMBED_QUEUE,               \* self._EMBED_QUEUE
    TRANSFINITE_CURVE_QUEUE,   \* self._TRANSFINITE_CURVE_QUEUE
    TRANSFINITE_SURFACE_QUEUE, \* self._TRANSFINITE_SURFACE_QUEUE
    AFTER_SYNC_QUEUE,          \* self._AFTER_SYNC_QUEUE
    objects,                   \* the entity objects the builder has created: [kind, dimension, ID]
    gmsh_uncommitted,          \* kernel: entities created since the last geo.synchronize()
    gmsh_physical,             \* kernel: number of physical groups per dimension
    gmsh_calls,                \* the kernel calls issued by the last builder call, in order
    live,                      \* Geometry objects constructed and not yet finalized
    finalized,                 \* Geometry objects whose __del__ has run
    gmsh_session,              \* kernel: initialize/add/finalize calls, in order
    call,                      \* the last builder call: its name and arguments
    result                     \* its outcome: [status, value]

fields == <<BOOLEAN_ID, ARRAY_ID, FIELD_ID, TAKEN_PHYSICALGROUP_IDS>>

queues == <<COMPOUND_ENTITIES, RECOMBINE_ENTITIES, EMBED_QUEUE,
            TRANSFINITE_CURVE_QUEUE, TRANSFINITE_SURFACE_QUEUE, AFTER_SYNC_QUEUE>>

kernel == <<objects, gmsh_uncommitted, gmsh_physical>>

session == <<live, finalized, gmsh_session>>

vars == <<fields, queues, kernel, gmsh_calls, session, call, result>>

----------------------------------------------------------------------------
(* Bounds of the model. *)

\* the largest explicit integer label a caller passes
MaxLabel == 3

\* explicit integer labels go down to -NegLabels
NegLabels == 1

\* the number of physical groups allocated in one run
MaxGroups == 3

\* the number of kernel entities created in one run
MaxEntities == 2

\* the number of physical groups the kernel is given in one run
MaxPhysical == 2

\* the longest entity list passed to add_physical
MaxMembers == 2

\* the longest list of layer counts or of heights passed to extrude
MaxLayers == 2

\* the number of Geometry objects constructed in one run
MaxGeometries == 3

----------------------------------------------------------------------------
(* Python values. *)

None == [t |-> "None"]

PyInt(n) == [t |-> "int", v |-> n]

PyStr(s) == [t |-> "str", v |-> s]

PyList(s) == [t |-> "list", v |-> s]

PyFloat == [t |-> "float"]

IntLabels == (0 - NegLabels)..MaxLabel

StrLabels == {"inlet", "1"}

\* what a caller may pass as label: nothing, an int, a str, something else
Labels == {None, PyFloat} \cup {PyInt(n) : n \in IntLabels} \cup {PyStr(s) : s \in StrLabels}

Returned(value) == [status |-> "ok", value |-> value]

Raised(error) == [status |-> error, value |-> None]

SeqToSet(s) == {s[i] : i \in DOMAIN s}

RECURSIVE SetMax(_)
SetMax(S) == IF Cardinality(S) = 1 THEN CHOOSE x \in S : TRUE
             ELSE LET x == CHOOSE y \in S : TRUE
                      m == SetMax(S \ {x})
                  IN IF x > m THEN x ELSE m

----------------------------------------------------------------------------
(* Geometry._new_physical_group *)

\* a plausible slip: counting the taken ids instead of taking their maximum
max_id_count(taken) == Len(taken)

\* max_id = 0 if not self._TAKEN_PHYSICALGROUP_IDS else max(...)
max_id(taken) == IF taken = <<>> THEN 0 ELSE SetMax(SeqToSet(taken))

\* a plausible slip: the membership test never finds the label
label_taken_never(taken, n) == FALSE

\* label in self._TAKEN_PHYSICALGROUP_IDS
label_taken(taken, n) == n \in SeqToSet(taken)

\* str(label)
str(n) == ToString(n)

\* a plausible slip: the name is returned as it came
quoted_bare(s) == s

\* f'"{label}"'
quoted(s) == "\"" \o s \o "\""

\* the slot a string label takes: max_id + 1
string_slot(taken) == max_id(taken) + 1

\* a plausible slip: an unlabelled group restarts at 1
default_label_one(taken) == 1

\* label = max_id + 1 when label is None
default_label(taken) == max_id(taken) + 1

\* The whole method as a function of the list and the label:
\* [taken |-> the list afterwards, result |-> return value or exception].
new_physical_group(taken, label) ==
    LET lab == IF label = None THEN PyInt(default_label(taken)) ELSE label
    IN  IF lab.t = "int"
        THEN IF label_taken(taken, lab.v)
             THEN [taken |-> taken, result |-> Raised("AssertionError")]
             ELSE [taken |-> Append(taken, lab.v), result |-> Returned(PyStr(str(lab.v)))]
        ELSE IF lab.t # "str"
        THEN [taken |-> taken, result |-> Raised("AssertionError")]
        ELSE [taken |-> Append(taken, string_slot(taken)),
              result |-> Returned(PyStr(quoted(lab.v)))]

NewPhysicalGroup(label) ==
    /\ Len(TAKEN_PHYSICALGROUP_IDS) < MaxGroups
    /\ LET r == new_physical_group(TAKEN_PHYSICALGROUP_IDS, label)
       IN  /\ TAKEN_PHYSICALGROUP_IDS' = r.taken
           /\ result' = r.result
    /\ call' = [op |-> "_new_physical_group", label |-> label]
    /\ gmsh_calls' = <<>>
    /\ UNCHANGED <<BOOLEAN_ID, ARRAY_ID, FIELD_ID, queues, kernel, session>>

----------------------------------------------------------------------------
(* Entity objects and the kernel's tags. *)

\* the explicit integer / string labels the add_physical runs draw from
PhysicalLabels == {None, PyInt(1), PyStr("inlet")}

\* the kernel numbers points, curves, surfaces and volumes per dimension, and
\* curve loops and surface loops in spaces of their own
TagSpace(kind, dimension) == IF kind = "CurveLoop" THEN "loop" ELSE IF kind = "SurfaceLoop" THEN "shell" ELSE ToString(dimension)

\* the tag the kernel gives the next entity of a tag space, the model holding
\* the entities objs: one past the last
NextTagIn(objs, space) ==
    1 + Cardinality({o \in objs : TagSpace(o.kind, o.dimension) = space})

NextTag(space) == NextTagIn(objects, space)

\* the kernel's view of an entity object: (dimension, tag)
DimTag(e) == <<e.dimension, e.ID>>

Created(kind, dimension) ==
    [kind |-> kind, dimension |-> dimension, ID |-> NextTag(TagSpace(kind, dimension))]

\* Geometry.add_point: Point(...) creates a kernel point
AddPoint ==
    /\ Cardinality(objects) < MaxEntities
    /\ LET p == Created("Point", 0)
       IN  /\ objects' = objects \cup {p}
           /\ gmsh_uncommitted' = gmsh_uncommitted \cup {p}
           /\ gmsh_calls' = <<[fn |-> "model.geo.addPoint", tag |-> p.ID]>>
           /\ result' = Returned(p)
    /\ call' = [op |-> "add_point"]
    /\ UNCHANGED <<fields, queues, gmsh_physical, session>>

\* Geometry.add_line: Line(p0, p1) creates a kernel curve; nothing keeps the two
\* end points apart
AddLine(p0, p1) ==
    /\ Cardinality(objects) < MaxEntities
    /\ p0.kind = "Point" /\ p1.kind = "Point"
    /\ LET l == Created("Line", 1)
       IN  /\ objects' = objects \cup {l}
           /\ gmsh_uncommitted' = gmsh_uncommitted \cup {l}
           /\ gmsh_calls' = <<[fn |-> "model.geo.addLine", p0 |-> p0.ID, p1 |-> p1.ID,
                               tag |-> l.ID]>>
           /\ result' = Returned(l)
    /\ call' = [op |-> "add_line", p0 |-> p0, p1 |-> p1]
    /\ UNCHANGED <<fields, queues, gmsh_physical, session>>

\* Geometry.synchronize
Synchronize ==
    /\ gmsh_uncommitted' = {}
    /\ gmsh_calls' = <<[fn |-> "model.geo.synchronize"]>>
    /\ call' = [op |-> "synchronize"]
    /\ result' = Returned(None)
    /\ UNCHANGED <<fields, queues, objects, gmsh_physical, session>>

----------------------------------------------------------------------------
(* Geometry.add_physical *)

\* the classes add_physical accepts (Point, PointBase, LineBase, Surface,
\* PlaneSurface, SurfaceBase, Volume, VolumeBase, Dummy)
PhysicalKinds == {"Point", "Line", "Surface", "Volume", "Dummy"}

\* if not isinstance(entities, list): entities = [entities]
as_list(entities) == IF entities.t = "list" THEN entities.v ELSE <<entities.v>>

\* a plausible slip: the members' dimensions are not compared
member_ok_any_dimension(e, dim) == e.kind \in PhysicalKinds

\* the two assertions of the loop body, for one member
member_ok(e, dim) == e.kind \in PhysicalKinds /\ e.dimension = dim

\* The whole method, as the record of what it does:
\* [taken, physical, calls, result].
add_physical(taken, physical, entities, label) ==
    LET ents == as_list(entities)
        fail(error) == [taken |-> taken, physical |-> physical, calls |-> <<>>,
                        result |-> Raised(error)]
    IN  IF ents = <<>> THEN fail("IndexError")
        ELSE LET dim == ents[1].dimension
             IN  IF \E i \in DOMAIN ents : ~member_ok(ents[i], dim)
                 THEN fail("AssertionError")
                 ELSE LET r == new_physical_group(taken, label)
                          tag == physical[dim] + 1
                      IN  IF r.result.status # "ok"
                          THEN [taken |-> r.taken, physical |-> physical, calls |-> <<>>,
                                result |-> r.result]
                          ELSE [taken |-> r.taken,
                                physical |-> [physical EXCEPT ![dim] = tag],
                                calls |-> << [fn |-> "model.addPhysicalGroup", dim |-> dim,
                                              tags |-> [i \in DOMAIN ents |-> ents[i].ID],
                                              tag |-> tag],
                                             [fn |-> "model.setPhysicalName", dim |-> dim,
                                              tag |-> tag, name |-> r.result.value.v] >>,
                                result |-> Returned(None)]

AddPhysical(entities, label) ==
    /\ Len(TAKEN_PHYSICALGROUP_IDS) < MaxPhysical
    /\ LET r == add_physical(TAKEN_PHYSICALGROUP_IDS, gmsh_physical, entities, label)
       IN  /\ TAKEN_PHYSICALGROUP_IDS' = r.taken
           /\ gmsh_physical' = r.physical
           /\ gmsh_calls' = r.calls
           /\ result' = r.result
    /\ call' = [op |-> "add_physical", entities |-> entities, label |-> label]
    /\ UNCHANGED <<BOOLEAN_ID, ARRAY_ID, FIELD_ID, queues, objects, gmsh_uncommitted, session>>

\* the lists of at most n different objects among those created so far
RECURSIVE ObjectLists(_)
ObjectLists(n) ==
    IF n = 0 THEN {<<>>}
    ELSE LET shorter == ObjectLists(n - 1)
         IN  shorter \cup {Append(s, o) : s \in {t \in shorter : Len(t) = n - 1},
                                          o \in objects}

NoRepeat(s) == \A i, j \in DOMAIN s : i # j => s[i] # s[j]

\* an object of a class add_physical does not accept
ACurveLoop == [kind |-> "CurveLoop", dimension |-> 1, ID |-> 1]

\* what a caller passes as entities: one object, or a list of objects
EntityArgs == {[t |-> "object", v |-> o] : o \in objects \cup {ACurveLoop}}
              \cup {PyList(s) : s \in {t \in ObjectLists(MaxMembers) : NoRepeat(t)}}

----------------------------------------------------------------------------
(* Geometry.translate, rotate, copy, symmetrize *)

\* translation vectors, points, axes: three numbers each
Vectors == {<<1, 0, 0>>, <<0, 0, 2>>}

\* rotation angles, in units of pi / PiUnits
PiUnits == 3

\* the four coefficients of a plane's equation
Planes == {<<0, 0, 1, 0>>}

\* the numbers the kernel's rotate takes after dimTags: x, y, z, ax, ay, az, angle
gmsh_rotate_arity == 7

\* a kernel transform called on dimTags with the numbers args; Python raises
\* TypeError when a function is called with too few or too many arguments
gmsh_transform(fn, arity, e, args) ==
    IF Len(args) = arity
    THEN [calls |-> <<[fn |-> fn, dimTags |-> <<DimTag(e)>>, args |-> args]>>,
          result |-> Returned(None)]
    ELSE [calls |-> <<[fn |-> fn, dimTags |-> <<DimTag(e)>>, args |-> args]>>,
          result |-> Raised("TypeError")]

\* gmsh.model.geo.rotate([(input_entity.dimension, input_entity._ID)], *vector)
translate(e, vector) == gmsh_transform("model.geo.rotate", gmsh_rotate_arity, e, vector)

\* gmsh.model.geo.rotate([(dim, id)], *point, *axis, angle)
rotate(e, point, angle, axis) ==
    gmsh_transform("model.geo.rotate", gmsh_rotate_arity, e, point \o axis \o <<angle>>)

\* gmsh.model.geo.symmetrize([(dim, id)], *coefficients)
symmetrize(e, coefficients) ==
    gmsh_transform("model.geo.symmetrize", Len(coefficients), e, coefficients)

Translate(e, vector) ==
    /\ LET r == translate(e, vector)
       IN  gmsh_calls' = r.calls /\ result' = r.result
    /\ call' = [op |-> "translate", input_entity |-> e, vector |-> vector]
    /\ UNCHANGED <<fields, queues, kernel, session>>

Rotate(e, point, angle, axis) ==
    /\ LET r == rotate(e, point, angle, axis)
       IN  gmsh_calls' = r.calls /\ result' = r.result
    /\ call' = [op |-> "rotate", input_entity |-> e, point |-> point, angle |-> angle,
                axis |-> axis]
    /\ UNCHANGED <<fields, queues, kernel, session>>

Symmetrize(e, coefficients) ==
    /\ LET r == symmetrize(e, coefficients)
       IN  gmsh_calls' = r.calls /\ result' = r.result
    /\ call' = [op |-> "symmetrize", input_entity |-> e, coefficients |-> coefficients]
    /\ UNCHANGED <<fields, queues, kernel, session>>

\* Geometry.copy: the kernel duplicates the entity and answers one (dim, tag) pair
Copy(e) ==
    /\ Cardinality(objects) < MaxEntities
    /\ LET d == Created("Dummy", e.dimension)
       IN  /\ objects' = objects \cup {d}
           /\ gmsh_uncommitted' = gmsh_uncommitted \cup {d}
           /\ gmsh_calls' = <<[fn |-> "model.geo.copy", dimTags |-> <<DimTag(e)>>,
                               tag |-> d.ID]>>
           /\ result' = Returned(d)
    /\ call' = [op |-> "copy", input_entity |-> e]
    /\ UNCHANGED <<fields, queues, gmsh_physical, session>>

----------------------------------------------------------------------------
(* Geometry.extrude *)

\* the dimension attribute of an object that has none set
NoDimension == 0 - 1

\* angles from below zero to beyond pi, in units of pi / PiUnits
Angles == {[t |-> "float", v |-> a] : a \in (0 - 1)..(PiUnits + 1)}

RECURSIVE Lists(_, _)
Lists(S, n) ==
    IF n = 0 THEN {<<>>}
    ELSE LET shorter == Lists(S, n - 1)
         IN  shorter \cup {Append(s, x) : s \in {t \in shorter : Len(t) = n - 1}, x \in S}

\* num_layers: absent, one count, or a list of counts
LayerArgs == {None, PyInt(2)} \cup {PyList(s) : s \in Lists({2, 3}, MaxLayers)}

\* heights: absent, or a list of cumulative heights
HeightArgs == {None} \cup {PyList(s) : s \in Lists({1, 2}, MaxLayers)}

\* an axis or a point: absent or three numbers
AxisArgs == {None, PyList(<<0, 0, 1>>)}

\* if isinstance(num_layers, int): num_layers = [num_layers]; None becomes []
layer_list(num_layers) ==
    IF num_layers.t = "int" THEN <<num_layers.v>>
    ELSE IF num_layers = None THEN <<>>
    ELSE num_layers.v

\* a plausible slip: extra heights are let through
heights_match_at_most(layers, heights) == Len(heights) <= Len(layers)

\* assert len(num_layers) == len(heights)
heights_match(layers, heights) == Len(layers) = Len(heights)

\* the heights handed to the kernel: [] when num_layers or heights is absent
height_list(num_layers, heights) ==
    IF num_layers = None \/ heights = None THEN <<>> ELSE heights.v

\* a plausible slip: a half turn is let through
angle_below_pi_or_pi(angle) == angle.v <= PiUnits

\* angle < numpy.pi
angle_below_pi(angle) == angle.v < PiUnits

\* the kernel's answer to an extrusion of e: the far-end image of e, the swept
\* body one dimension up, and the lateral entities (none for a point, two for
\* a curve), as (dim, tag) pairs with fresh tags
out_dim_tags_in(objs, e) ==
    LET d == e.dimension
        top == NextTagIn(objs, ToString(d))
    IN  <<[kind |-> "Dummy", dimension |-> d, ID |-> top],
          [kind |-> "Dummy", dimension |-> d + 1, ID |-> NextTagIn(objs, ToString(d + 1))]>>
        \o [i \in 1..(2 * d) |-> [kind |-> "Dummy", dimension |-> d, ID |-> top + i]]

out_dim_tags(e) == out_dim_tags_in(objects, e)

\* The whole method, as the record of what it does on a model holding the
\* entities objs: [calls, created, result].
extrude_in(objs, e, translation_axis, rotation_axis, point_on_axis, angle, num_layers, heights, recombine) ==
    LET fail(error) == [calls |-> <<>>, created |-> {}, result |-> Raised(error)]
        layers == layer_list(num_layers)
        hs == height_list(num_layers, heights)
        out == out_dim_tags_in(objs, e)
        done(fn, args) ==
            [calls |-> <<[fn |-> fn, dimTags |-> <<DimTag(e)>>, args |-> args,
                          numElements |-> layers, heights |-> hs,
                          recombine |-> recombine,
                          outDimTags |-> [i \in DOMAIN out |-> DimTag(out[i])]]>>,
             created |-> SeqToSet(out),
             result |-> Returned([t |-> "tuple", top |-> out[1], extruded |-> out[2],
                                  lateral |-> SubSeq(out, 3, Len(out))])]
    IN  IF e.dimension = NoDimension THEN fail("AssertionError")
        ELSE IF num_layers # None /\ heights # None /\ ~heights_match(layers, heights.v)
        THEN fail("AssertionError")
        ELSE IF translation_axis # None /\ rotation_axis = None
        THEN done("model.geo.extrude", translation_axis.v)
        ELSE IF translation_axis = None /\ rotation_axis # None
        THEN IF angle = None THEN fail("TypeError")
             ELSE IF ~angle_below_pi(angle) THEN fail("AssertionError")
             ELSE IF point_on_axis = None THEN fail("TypeError")
             ELSE done("model.geo.revolve", point_on_axis.v \o rotation_axis.v \o <<angle.v>>)
        ELSE IF translation_axis = None \/ rotation_axis = None THEN fail("AssertionError")
        ELSE IF angle = None THEN fail("TypeError")
        ELSE IF ~angle_below_pi(angle) THEN fail("AssertionError")
        ELSE IF point_on_axis = None THEN fail("TypeError")
        ELSE done("model.geo.twist",
                  point_on_axis.v \o translation_axis.v \o rotation_axis.v \o <<angle.v>>)

extrude(e, translation_axis, rotation_axis, point_on_axis, angle, num_layers, heights, recombine) ==
    extrude_in(objects, e, translation_axis, rotation_axis, point_on_axis, angle, num_layers, heights, recombine)

\* one extrude call, its arguments those of the pending call
Extrude ==
    /\ call.op = "extrude"
    /\ result.status = "pending"
    /\ LET r == extrude(call.input_entity, call.translation_axis, call.rotation_axis,
                        call.point_on_axis, call.angle, call.num_layers, call.heights,
                        call.recombine)
       IN  /\ gmsh_calls' = r.calls
           /\ objects' = objects \cup r.created
           /\ gmsh_uncommitted' = gmsh_uncommitted \cup r.created
           /\ result' = r.result
    /\ UNCHANGED <<fields, queues, gmsh_physical, session, call>>

----------------------------------------------------------------------------
(* Composite shapes. Each builder is the record of what one call does on a
   model holding the entities objs: [calls, created, compound, result], the
   kernel calls in order, the entity objects made, the entries appended to
   _COMPOUND_ENTITIES and the outcome. *)

\* the largest num_sections of an add_circle call
MaxSections == 4

\* the largest number of corners of an add_polygon call
MaxCorners == 4

\* the largest radius or edge length of a shape
MaxExtent == 2

\* Python's p[i] on a list held as a sequence
at(p, i) == p[i + 1]

\* the _ID of every object of a list
ids(s) == [i \in DOMAIN s |-> s[i].ID]

\* k new entity objects of one kind, numbered on from the entities objs
new_objects(objs, kind, dimension, k) ==
    [i \in 1..k |-> [kind |-> kind, dimension |-> dimension,
                     ID |-> NextTagIn(objs, TagSpace(kind, dimension)) + i - 1]]

\* -c, a curve traversed from its end to its start
neg(c) == [c EXCEPT !.ID = 0 - c.ID]

\* the kernel call each entity constructor makes for its object o
Point(x, o) == [fn |-> "model.geo.addPoint", x |-> x, tag |-> o.ID]

Line(p0, p1, o) ==
    [fn |-> "model.geo.addLine", start |-> p0.ID, end |-> p1.ID, tag |-> o.ID]

CircleArc(start, center, end, o) ==
    [fn |-> "model.geo.addCircleArc", start |-> start.ID, center |-> center.ID,
     end |-> end.ID, tag |-> o.ID]

EllipseArc(start, center, point_on_major_axis, end, o) ==
    [fn |-> "model.geo.addEllipseArc", start |-> start.ID, center |-> center.ID,
     major |-> point_on_major_axis.ID, end |-> end.ID, tag |-> o.ID]

CurveLoop(curves, o) ==
    [fn |-> "model.geo.addCurveLoop", curves |-> ids(curves), tag |-> o.ID]

PlaneSurface(curve_loop, holes, o) ==
    [fn |-> "model.geo.addPlaneSurface", loops |-> <<curve_loop.ID>> \o ids(holes),
     tag |-> o.ID]

Surface(curve_loop, o) ==
    [fn |-> "model.geo.addSurfaceFilling", loops |-> <<curve_loop.ID>>, tag |-> o.ID]

SurfaceLoop(surfaces, o) ==
    [fn |-> "model.geo.addSurfaceLoop", surfaces |-> ids(surfaces), tag |-> o.ID]

Volume(surface_loop, holes, o) ==
    [fn |-> "model.geo.addVolume", loops |-> <<surface_loop.ID>> \o ids(holes),
     tag |-> o.ID]

\* a builder call that fails before it does anything
shape_fails(error) ==
    [calls |-> <<>>, created |-> {}, compound |-> <<>>, result |-> Raised(error)]

\* a curve loop and a surface loop made earlier, the holes of the holes lists
AHole == [kind |-> "CurveLoop", dimension |-> 1, ID |-> 1]

AVoid == [kind |-> "SurfaceLoop", dimension |-> 2, ID |-> 1]

\* the holes arguments: absent, an empty list, a list of one hole
HolesArgs(hole) == {None, PyList(<<>>), PyList(<<hole>>)}

\* the R arguments: absent, or a matrix, held as the moduli of its eigenvalues
MatrixArgs == {None, [t |-> "matrix", moduli |-> <<1, 1, 1>>],
               [t |-> "matrix", moduli |-> <<2, 1, 1>>]}

\* numpy.allclose(abs(numpy.linalg.eigvals(R)), numpy.ones(...))
preserves_circles(R) == \A i \in DOMAIN R.moduli : R.moduli[i] = 1

\* the rows of X: the centre, then num_sections points on the circle, point k
\* at k / num_sections of a turn; the four cardinal points are written out
\* (exact) and the others computed with cos and sin; then R and x0 are applied
circle_points(x0, radius, R, num_sections) ==
    <<[x0 |-> x0, R |-> R, radius |-> 0, turn |-> <<0, num_sections>>, exact |-> TRUE]>>
    \o [k \in 1..num_sections |->
           [x0 |-> x0, R |-> R, radius |-> radius, turn |-> <<k - 1, num_sections>>,
            exact |-> (num_sections = 4)]]

\* the arcs left without the one that closes the circle
circle_arcs_open(p) ==
    [k \in 1..(Len(p) - 2) |-> <<at(p, k), at(p, 0), at(p, k + 1)>>]

\* the arcs of the circle, each (start, centre, end): p[k] to p[k + 1] for k in
\* range(1, len(p) - 1), then p[-1] back to p[1]
circle_arcs(p) ==
    [k \in 1..(Len(p) - 2) |-> <<at(p, k), at(p, 0), at(p, k + 1)>>]
    \o <<<<p[Len(p)], at(p, 0), at(p, 1)>>>>

add_circle(objs, x0, radius, R, compound, num_sections, holes, make_surface) ==
    LET X == circle_points(x0, radius, R, num_sections)
        p == new_objects(objs, "Point", 0, Len(X))
        ends == circle_arcs(p)
        arcs == new_objects(objs, "CircleArc", 1, Len(ends))
        curve_loop == new_objects(objs, "CurveLoop", 1, 1)[1]
        plane_surface == new_objects(objs, "PlaneSurface", 2, 1)[1]
        hs == IF holes = None THEN <<>> ELSE holes.v
    IN  IF holes # None /\ ~make_surface THEN shape_fails("AssertionError")
        ELSE IF R # None /\ ~preserves_circles(R) THEN shape_fails("AssertionError")
        ELSE [calls |->
                 [i \in DOMAIN p |-> Point(X[i], p[i])]
                 \o [k \in DOMAIN arcs |->
                        CircleArc(ends[k][1], ends[k][2], ends[k][3], arcs[k])]
                 \o <<CurveLoop(arcs, curve_loop)>>
                 \o (IF make_surface THEN <<PlaneSurface(curve_loop, hs, plane_surface)>>
                     ELSE <<>>),
              created |->
                 SeqToSet(p) \cup SeqToSet(arcs) \cup {curve_loop}
                 \cup (IF make_surface THEN {plane_surface} ELSE {}),
              compound |->
                 (IF compound THEN <<<<1, ids(arcs)>>>> ELSE <<>>)
                 \o (IF compound /\ make_surface THEN <<<<2, <<plane_surface.ID>>>>>>
                     ELSE <<>>),
              result |->
                 Returned([t |-> "Circle", x0 |-> x0, radius |-> radius, R |-> R,
                           compound |-> compound, num_sections |-> num_sections,
                           holes |-> hs,
                           curve_loop |-> [object |-> curve_loop, curves |-> arcs],
                           plane_surface |->
                               IF make_surface THEN plane_surface
                               ELSE [kind |-> "None", dimension |-> NoDimension,
                                     ID |-> 0]])]

\* what every shape action does with the record of its builder
Built(r) ==
    /\ gmsh_calls' = r.calls
    /\ objects' = objects \cup r.created
    /\ gmsh_uncommitted' = gmsh_uncommitted \cup r.created
    /\ COMPOUND_ENTITIES' = COMPOUND_ENTITIES \o r.compound
    /\ result' = r.result
    /\ UNCHANGED <<fields, RECOMBINE_ENTITIES, EMBED_QUEUE, TRANSFINITE_CURVE_QUEUE,
                   TRANSFINITE_SURFACE_QUEUE, AFTER_SYNC_QUEUE, gmsh_physical,
                   session, call>>

\* one add_circle call, its arguments those of the pending call
AddCircle ==
    /\ call.op = "add_circle"
    /\ result.status = "pending"
    /\ Built(add_circle(objects, call.x0, call.radius, call.R, call.compound,
                        call.num_sections, call.holes, call.make_surface))

\* the seven points of an ellipsoid: the centre, then the ends of the axes at
\* +x, +y, +z, -x, -y, -z
ellipsoid_points(x0, radii) ==
    <<x0,
      <<x0[1] + radii[1], x0[2], x0[3]>>,
      <<x0[1], x0[2] + radii[2], x0[3]>>,
      <<x0[1], x0[2], x0[3] + radii[3]>>,
      <<x0[1] - radii[1], x0[2], x0[3]>>,
      <<x0[1], x0[2] - radii[2], x0[3]>>,
      <<x0[1], x0[2], x0[3] - radii[3]>>>>

\* the skeleton: the (start, end) points of the twelve arcs c[0] .. c[11], as
\* indices into p; every arc has p[0] as centre and its end on the major axis
ellipsoid_arcs ==
    <<<<1, 6>>, <<6, 4>>, <<4, 3>>, <<3, 1>>, <<1, 2>>, <<2, 4>>,
      <<4, 5>>, <<5, 1>>, <<6, 2>>, <<2, 3>>, <<3, 5>>, <<5, 6>>>>

\* the eight loops with the first one turned round
ellipsoid_loops_inward ==
    <<<<<<-1, 3>>, <<-1, 9>>, <<-1, 4>>>>, <<<<1, 8>>, <<-1, 4>>, <<1, 0>>>>,
      <<<<-1, 9>>, <<1, 5>>, <<1, 2>>>>, <<<<-1, 5>>, <<-1, 8>>, <<1, 1>>>>,
      <<<<1, 7>>, <<-1, 3>>, <<1, 10>>>>, <<<<1, 11>>, <<-1, 0>>, <<-1, 7>>>>,
      <<<<-1, 10>>, <<-1, 2>>, <<1, 6>>>>, <<<<-1, 1>>, <<-1, 11>>, <<-1, 6>>>>>>

\* the eight curve loops, one per octant, each curve a (sign, index into c):
\* <<1, 4>> is c[4] and <<-1, 4>> is -c[4]
ellipsoid_loops ==
    <<<<<<1, 4>>, <<1, 9>>, <<1, 3>>>>, <<<<1, 8>>, <<-1, 4>>, <<1, 0>>>>,
      <<<<-1, 9>>, <<1, 5>>, <<1, 2>>>>, <<<<-1, 5>>, <<-1, 8>>, <<1, 1>>>>,
      <<<<1, 7>>, <<-1, 3>>, <<1, 10>>>>, <<<<1, 11>>, <<-1, 0>>, <<-1, 7>>>>,
      <<<<-1, 10>>, <<-1, 2>>, <<1, 6>>>>, <<<<-1, 1>>, <<-1, 11>>, <<-1, 6>>>>>>

\* the curves of a loop: c[i] or -c[i] for each (sign, i)
signed_curves(c, loop) ==
    [j \in DOMAIN loop |->
        IF loop[j][1] = 1 THEN at(c, loop[j][2]) ELSE neg(at(c, loop[j][2]))]

\* the two halves with the fourth surface in both
ellipsoid_halves_overlap(s) == <<SubSeq(s, 1, 4), SubSeq(s, 4, Len(s))>>

\* s[:4] and s[4:]
ellipsoid_halves(s) == <<SubSeq(s, 1, 4), SubSeq(s, 5, Len(s))>>

add_ellipsoid(objs, x0, radii, with_volume, holes) ==
    LET hs == IF holes = None THEN <<>> ELSE holes.v
        X == ellipsoid_points(x0, radii)
        p == new_objects(objs, "Point", 0, Len(X))
        c == new_objects(objs, "EllipseArc", 1, Len(ellipsoid_arcs))
        ll == new_objects(objs, "CurveLoop", 1, Len(ellipsoid_loops))
        s == new_objects(objs, "Surface", 2, Len(ll))
        halves == ellipsoid_halves(s)
        surface_loop == new_objects(objs, "SurfaceLoop", 2, 1)[1]
        volume == new_objects(objs, "Volume", 3, 1)[1]
    IN  IF hs # <<>> /\ ~with_volume THEN shape_fails("AssertionError")
        ELSE [calls |->
                 [i \in DOMAIN p |-> Point(X[i], p[i])]
                 \o [k \in DOMAIN c |->
                        EllipseArc(at(p, ellipsoid_arcs[k][1]), at(p, 0),
                                   at(p, ellipsoid_arcs[k][2]),
                                   at(p, ellipsoid_arcs[k][2]), c[k])]
                 \o [k \in DOMAIN ll |->
                        CurveLoop(signed_curves(c, ellipsoid_loops[k]), ll[k])]
                 \o [k \in DOMAIN s |-> Surface(ll[k], s[k])]
                 \o <<SurfaceLoop(s, surface_loop)>>
                 \o (IF with_volume THEN <<Volume(surface_loop, hs, volume)>> ELSE <<>>),
              created |->
                 SeqToSet(p) \cup SeqToSet(c) \cup SeqToSet(ll) \cup SeqToSet(s)
                 \cup {surface_loop} \cup (IF with_volume THEN {volume} ELSE {}),
              compound |-> <<<<2, ids(halves[1])>>, <<2, ids(halves[2])>>>>,
              result |->
                 Returned([t |-> "Ellipsoid", x0 |-> x0, radii |-> radii,
                           surface_loop |-> surface_loop,
                           volume |->
                               IF with_volume THEN volume
                               ELSE [kind |-> "None", dimension |-> NoDimension,
                                     ID |-> 0]])]

\* one add_ellipsoid call, its arguments those of the pending call
AddEllipsoid ==
    /\ call.op = "add_ellipsoid"
    /\ result.status = "pending"
    /\ Built(add_ellipsoid(objects, call.x0, call.radii, call.with_volume, call.holes))

\* the mesh_size arguments of a polygon: one size for all corners (absent
\* here), or a list with one size per corner, here of three
MeshSizeArgs == {None, PyList(<<1, 1, 1>>)}

\* the X arguments of a polygon: n corners, no three on a line
Corners(n) == [k \in 1..n |-> <<k, k * k, 0>>]

\* the lines of the polygon, each (start, end): p[k] to p[k + 1] for k in
\* range(len(p) - 1), then p[-1] back to p[0]
polygon_lines(p) ==
    [k \in 1..(Len(p) - 1) |-> <<at(p, k - 1), at(p, k)>>] \o <<<<p[Len(p)], at(p, 0)>>>>

add_polygon(objs, X, mesh_size, holes, make_surface) ==
    LET hs == IF holes = None THEN <<>> ELSE holes.v
        sizes == IF mesh_size = None THEN [k \in DOMAIN X |-> None] ELSE mesh_size.v
        p == new_objects(objs, "Point", 0, Len(X))
        ends == polygon_lines(p)
        lines == new_objects(objs, "Line", 1, Len(ends))
        ll == new_objects(objs, "CurveLoop", 1, 1)[1]
        surface == new_objects(objs, "PlaneSurface", 2, 1)[1]
    IN  IF holes # None /\ ~make_surface THEN shape_fails("AssertionError")
        ELSE IF mesh_size # None /\ Len(X) # Len(mesh_size.v)
        THEN shape_fails("AssertionError")
        ELSE [calls |->
                 [i \in DOMAIN p |-> Point(X[i], p[i])]
                 \o [k \in DOMAIN lines |-> Line(ends[k][1], ends[k][2], lines[k])]
                 \o <<CurveLoop(lines, ll)>>
                 \o (IF make_surface THEN <<PlaneSurface(ll, hs, surface)>> ELSE <<>>),
              created |->
                 SeqToSet(p) \cup SeqToSet(lines) \cup {ll}
                 \cup (IF make_surface THEN {surface} ELSE {}),
              compound |-> <<>>,
              result |->
                 Returned([t |-> "Polygon", points |-> p, lines |-> lines,
                           num_edges |-> Len(lines), curve_loop |-> ll,
                           surface |->
                               IF make_surface THEN surface
                               ELSE [kind |-> "None", dimension |-> NoDimension,
                                     ID |-> 0],
                           mesh_size |-> sizes])]

\* one add_polygon call, its arguments those of the pending call
AddPolygon ==
    /\ call.op = "add_polygon"
    /\ result.status = "pending"
    /\ Built(add_polygon(objects, call.X, call.mesh_size, call.holes, call.make_surface))

\* the eight corners of a box, p[0] .. p[7]
box_points(x0, x1, y0, y1, z0, z1) ==
    <<<<x1, y1, z1>>, <<x1, y1, z0>>, <<x1, y0, z1>>, <<x1, y0, z0>>,
      <<x0, y1, z1>>, <<x0, y1, z0>>, <<x0, y0, z1>>, <<x0, y0, z0>>>>

\* the (start, end) corners of the twelve edges e[0] .. e[11], as indices into p
box_edges ==
    <<<<0, 1>>, <<0, 2>>, <<0, 4>>, <<1, 3>>, <<1, 5>>, <<2, 3>>,
      <<2, 6>>, <<3, 7>>, <<4, 5>>, <<4, 6>>, <<5, 7>>, <<6, 7>>>>

\* the six line loops, one per face, each edge a (sign, index into e)
box_loops ==
    <<<<<<1, 0>>, <<1, 3>>, <<-1, 5>>, <<-1, 1>>>>,
      <<<<1, 0>>, <<1, 4>>, <<-1, 8>>, <<-1, 2>>>>,
      <<<<1, 1>>, <<1, 6>>, <<-1, 9>>, <<-1, 2>>>>,
      <<<<1, 3>>, <<1, 7>>, <<-1, 10>>, <<-1, 4>>>>,
      <<<<1, 5>>, <<1, 7>>, <<-1, 11>>, <<-1, 6>>>>,
      <<<<1, 8>>, <<1, 10>>, <<-1, 11>>, <<-1, 9>>>>>>

add_box(objs, x0, x1, y0, y1, z0, z1, with_volume, holes) ==
    LET hs == IF holes = None THEN <<>> ELSE holes.v
        X == box_points(x0, x1, y0, y1, z0, z1)
        p == new_objects(objs, "Point", 0, Len(X))
        e == new_objects(objs, "Line", 1, Len(box_edges))
        ll == new_objects(objs, "CurveLoop", 1, Len(box_loops))
        s == new_objects(objs, "Surface", 2, Len(ll))
        surface_loop == new_objects(objs, "SurfaceLoop", 2, 1)[1]
        vol == new_objects(objs, "Volume", 3, 1)[1]
    IN  IF hs # <<>> /\ ~with_volume THEN shape_fails("AssertionError")
        ELSE [calls |->
                 [i \in DOMAIN p |-> Point(X[i], p[i])]
                 \o [k \in DOMAIN e |->
                        Line(at(p, box_edges[k][1]), at(p, box_edges[k][2]), e[k])]
                 \o [k \in DOMAIN ll |-> CurveLoop(signed_curves(e, box_loops[k]), ll[k])]
                 \o [k \in DOMAIN s |-> Surface(ll[k], s[k])]
                 \o <<SurfaceLoop(s, surface_loop)>>
                 \o (IF with_volume THEN <<Volume(surface_loop, hs, vol)>> ELSE <<>>),
              created |->
                 SeqToSet(p) \cup SeqToSet(e) \cup SeqToSet(ll) \cup SeqToSet(s)
                 \cup {surface_loop} \cup (IF with_volume THEN {vol} ELSE {}),
              compound |-> <<>>,
              result |->
                 Returned([t |-> "Box", x0 |-> x0, x1 |-> x1, y0 |-> y0, y1 |-> y1,
                           z0 |-> z0, z1 |-> z1, surface_loop |-> surface_loop,
                           volume |->
                               IF with_volume THEN vol
                               ELSE [kind |-> "None", dimension |-> NoDimension,
                                     ID |-> 0]])]

\* one add_box call, its arguments those of the pending call
AddBox ==
    /\ call.op = "add_box"
    /\ result.status = "pending"
    /\ Built(add_box(objects, call.x0, call.x1, call.y0, call.y1, call.z0, call.z1,
                     call.with_volume, call.holes))

\* the R arguments of a torus: the identity (the default) and diag(2, 1, 1)
TorusMatrices == {[t |-> "matrix", moduli |-> <<1, 1, 1>>],
                  [t |-> "matrix", moduli |-> <<2, 1, 1>>]}

\* numpy.dot(R, Rc), Rc the matrix that swaps the x and z axes: R Rc keeps
\* eigenvalues on the unit circle when R is the identity, and diag(2, 1, 1) Rc
\* has the eigenvalues 1 and +-sqrt(2), held here by the first power of their
\* squares
dot_Rc(R) ==
    IF preserves_circles(R) THEN R ELSE [t |-> "matrix", moduli |-> <<2, 2, 1>>]

\* the centre of the cross-section: x0 + numpy.dot(R, [0, orad, 0])
torus_section_centre(x0, R, orad) == [x0 |-> x0, R |-> R, of |-> <<0, orad, 0>>]

\* range(3): the number of revolutions of each cross-section curve
torus_rounds == 3

\* angle = 2 * numpy.pi / 3
torus_angle == [t |-> "float", v |-> (2 * PiUnits) \div 3]

\* the cross-section curves left as they were after a revolution
torus_previous_kept(previous, k, top) == previous

\* previous[k] = top
torus_previous(previous, k, top) == [previous EXCEPT ![k + 1] = top]

\* the two nested loops from their step j on: step j is round j \div N of
\* curve j % N; st is [objs, previous, all_surfaces, calls, status]
RECURSIVE torus_sweep(_, _, _, _)
torus_sweep(st, rot_axis, point_on_rot_axis, j) ==
    LET N == Len(st.previous)
        k == j % N
        r == extrude_in(st.objs, at(st.previous, k), None, rot_axis, point_on_rot_axis,
                        torus_angle, None, None, FALSE)
    IN  IF j = torus_rounds * N THEN st
        ELSE IF r.result.status # "ok" THEN [st EXCEPT !.status = r.result.status]
        ELSE torus_sweep([objs |-> st.objs \cup r.created,
                          previous |-> torus_previous(st.previous, k, r.result.value.top),
                          all_surfaces |-> Append(st.all_surfaces,
                                                  r.result.value.extruded),
                          calls |-> st.calls \o r.calls,
                          status |-> "ok"],
                         rot_axis, point_on_rot_axis, j + 1)

add_torus_extrude_lines(objs, irad, orad, R, x0) ==
    LET c == add_circle(objs, torus_section_centre(x0, R, orad), irad, dot_Rc(R),
                        FALSE, 3, None, TRUE)
        rot_axis == PyList(<<[R |-> R, of |-> <<0, 0, 1>>]>>)
        point_on_rot_axis == PyList(<<[x0 |-> x0, R |-> R, of |-> <<0, 0, 0>>]>>)
        swept == torus_sweep([objs |-> objs \cup c.created,
                              previous |-> c.result.value.curve_loop.curves,
                              all_surfaces |-> <<>>,
                              calls |-> c.calls,
                              status |-> "ok"],
                             rot_axis, point_on_rot_axis, 0)
        surface_loop == new_objects(swept.objs, "SurfaceLoop", 2, 1)[1]
        vol == new_objects(swept.objs, "Volume", 3, 1)[1]
    IN  IF c.result.status # "ok" THEN c
        ELSE IF swept.status # "ok"
        THEN [calls |-> swept.calls, created |-> swept.objs \ objs, compound |-> <<>>,
              result |-> Raised(swept.status)]
        ELSE [calls |-> swept.calls \o <<SurfaceLoop(swept.all_surfaces, surface_loop),
                                         Volume(surface_loop, <<>>, vol)>>,
              created |-> (swept.objs \ objs) \cup {surface_loop, vol},
              compound |-> <<>>,
              result |-> Returned(vol)]

\* one _add_torus_extrude_lines call, its arguments those of the pending call
AddTorusExtrudeLines ==
    /\ call.op = "_add_torus_extrude_lines"
    /\ result.status = "pending"
    /\ Built(add_torus_extrude_lines(objects, call.irad, call.orad, call.R, call.x0))

----------------------------------------------------------------------------
(* Geometry.add_boundary_layer and Geometry.set_background_mesh *)

\* the largest number of entries of the after-sync queue
MaxQueue == 3

\* the edges_list arguments of a boundary layer: absent, empty, one curve
EdgeLists == {None, PyList(<<>>),
              PyList(<<[kind |-> "Line", dimension |-> 1, ID |-> 1]>>)}

\* BoundaryLayer.__init__: edges_list if edges_list else []; the object is
\* told from the other boundary layers by its identity, and has no tag yet
BoundaryLayer(identity, edges_list) ==
    [kind |-> "BoundaryLayer", identity |-> identity,
     edges_list |-> IF edges_list = None THEN <<>> ELSE edges_list.v]

\* SetBackgroundMesh.__init__: the fields, as the identities of the objects
SetBackgroundMesh_(fs, operator) ==
    [kind |-> "SetBackgroundMesh", fields |-> fs, operator |-> operator]

\* the queue with the entry put in front
after_sync_prepend(queue, entry) == <<entry>> \o queue

\* self._AFTER_SYNC_QUEUE.append(entry)
after_sync_append(queue, entry) == Append(queue, entry)

\* the boundary layers made so far, by identity
Layers == {AFTER_SYNC_QUEUE[i].identity :
              i \in {j \in DOMAIN AFTER_SYNC_QUEUE :
                        AFTER_SYNC_QUEUE[j].kind = "BoundaryLayer"}}

\* the fields arguments: lists without repetition of boundary layers made so far
FieldLists == {s \in Lists(Layers, 2) : NoRepeat(s)}

\* Geometry.add_boundary_layer
AddBoundaryLayer(edges_list) ==
    /\ Len(AFTER_SYNC_QUEUE) < MaxQueue
    /\ LET layer == BoundaryLayer(Cardinality(Layers) + 1, edges_list)
       IN  /\ AFTER_SYNC_QUEUE' = after_sync_append(AFTER_SYNC_QUEUE, layer)
           /\ result' = Returned(layer)
    /\ call' = [op |-> "add_boundary_layer", edges_list |-> edges_list]
    /\ gmsh_calls' = <<>>
    /\ UNCHANGED <<fields, COMPOUND_ENTITIES, RECOMBINE_ENTITIES, EMBED_QUEUE,
                   TRANSFINITE_CURVE_QUEUE, TRANSFINITE_SURFACE_QUEUE, kernel, session>>

\* Geometry.set_background_mesh
SetBackgroundMesh(fs, operator) ==
    /\ Len(AFTER_SYNC_QUEUE) < MaxQueue
    /\ AFTER_SYNC_QUEUE' =
           after_sync_append(AFTER_SYNC_QUEUE, SetBackgroundMesh_(fs, operator))
    /\ result' = Returned(None)
    /\ call' = [op |-> "set_background_mesh", fields |-> fs, operator |-> operator]
    /\ gmsh_calls' = <<>>
    /\ UNCHANGED <<fields, COMPOUND_ENTITIES, RECOMBINE_ENTITIES, EMBED_QUEUE,
                   TRANSFINITE_CURVE_QUEUE, TRANSFINITE_SURFACE_QUEUE, kernel, session>>

----------------------------------------------------------------------------
(* Geometry.__init__ *)

\* the fields a constructor sets
GeometryFields ==
    /\ BOOLEAN_ID = 0
    /\ ARRAY_ID = 0
    /\ FIELD_ID = 0
    /\ TAKEN_PHYSICALGROUP_IDS = <<>>
    /\ COMPOUND_ENTITIES = <<>>
    /\ RECOMBINE_ENTITIES = <<>>
    /\ EMBED_QUEUE = <<>>
    /\ TRANSFINITE_CURVE_QUEUE = <<>>
    /\ TRANSFINITE_SURFACE_QUEUE = <<>>
    /\ AFTER_SYNC_QUEUE = <<>>

\* the state after g = Geometry(): the fields set, the kernel initialized, an empty model
Init ==
    /\ GeometryFields
    /\ objects = {}
    /\ gmsh_uncommitted = {}
    /\ gmsh_physical = [d \in 0..3 |-> 0]
    /\ gmsh_calls = <<[fn |-> "initialize"], [fn |-> "model.add", name |-> "pygmsh model"]>>
    /\ live = {1}
    /\ finalized = {}
    /\ gmsh_session = <<[fn |-> "initialize", by |-> 1], [fn |-> "model.add", by |-> 1]>>
    /\ call = [op |-> "__init__"]
    /\ result = Returned(None)

Next ==
    \/ \E label \in Labels : NewPhysicalGroup(label)

Spec == Init /\ [][Next]_vars

(* The physical-group runs: entities are created, committed and tagged. *)
NextPhysical ==
    \/ AddPoint
    \/ \E p0, p1 \in objects : AddLine(p0, p1)
    \/ Synchronize
    \/ \E entities \in EntityArgs, label \in PhysicalLabels : AddPhysical(entities, label)
    \/ \E e \in objects, vector \in Vectors : Translate(e, vector)
    \/ \E e \in objects, point \in Vectors, axis \in Vectors : Rotate(e, point, 1, axis)
    \/ \E e \in objects, coefficients \in Planes : Symmetrize(e, coefficients)
    \/ \E e \in objects : Copy(e)

SpecPhysical == Init /\ [][NextPhysical]_vars

(* The extrude runs: two points and a line exist, and one extrude call with
   arguments of every shape is pending. *)
ExtrudeInputs ==
    {[kind |-> "Point", dimension |-> 0, ID |-> 1],
     [kind |-> "Line", dimension |-> 1, ID |-> 1],
     [kind |-> "Dummy", dimension |-> NoDimension, ID |-> 1]}

InitExtrude ==
    /\ GeometryFields
    /\ objects = {[kind |-> "Point", dimension |-> 0, ID |-> 1],
                  [kind |-> "Point", dimension |-> 0, ID |-> 2],
                  [kind |-> "Line", dimension |-> 1, ID |-> 1]}
    /\ gmsh_uncommitted = objects
    /\ gmsh_physical = [d \in 0..3 |-> 0]
    /\ gmsh_calls = <<>>
    /\ live = {1}
    /\ finalized = {}
    /\ gmsh_session = <<[fn |-> "initialize", by |-> 1], [fn |-> "model.add", by |-> 1]>>
    /\ call \in [op : {"extrude"}, input_entity : ExtrudeInputs,
                 translation_axis : AxisArgs, rotation_axis : AxisArgs,
                 point_on_axis : AxisArgs, angle : {None} \cup Angles,
                 num_layers : LayerArgs, heights : HeightArgs, recombine : BOOLEAN]
    /\ result = [status |-> "pending", value |-> None]

NextExtrude == Extrude

SpecExtrude == InitExtrude /\ [][NextExtrude]_vars

(* The session runs: Geometry objects are constructed and finalized. *)
Geometries == 1..MaxGeometries

\* Geometry.__init__: the fields are set, the kernel initialized, a model added
\* (the field variables are those of the Geometry constructed last)
Construct(g) ==
    /\ g \notin live \cup finalized
    /\ BOOLEAN_ID' = 0
    /\ ARRAY_ID' = 0
    /\ FIELD_ID' = 0
    /\ TAKEN_PHYSICALGROUP_IDS' = <<>>
    /\ COMPOUND_ENTITIES' = <<>>
    /\ RECOMBINE_ENTITIES' = <<>>
    /\ EMBED_QUEUE' = <<>>
    /\ TRANSFINITE_CURVE_QUEUE' = <<>>
    /\ TRANSFINITE_SURFACE_QUEUE' = <<>>
    /\ AFTER_SYNC_QUEUE' = <<>>
    /\ objects' = {}
    /\ gmsh_uncommitted' = {}
    /\ gmsh_physical' = [d \in 0..3 |-> 0]
    /\ gmsh_calls' = <<[fn |-> "initialize"], [fn |-> "model.add", name |-> "pygmsh model"]>>
    /\ gmsh_session' = gmsh_session \o <<[fn |-> "initialize", by |-> g],
                                          [fn |-> "model.add", by |-> g]>>
    /\ live' = live \cup {g}
    /\ finalized' = finalized
    /\ call' = [op |-> "__init__", self |-> g]
    /\ result' = Returned(None)

\* Geometry.__del__: the kernel is finalized
Destroy(g) ==
    /\ g \in live
    /\ gmsh_calls' = <<[fn |-> "finalize"]>>
    /\ gmsh_session' = Append(gmsh_session, [fn |-> "finalize", by |-> g])
    /\ live' = live \ {g}
    /\ finalized' = finalized \cup {g}
    /\ call' = [op |-> "__del__", self |-> g]
    /\ result' = Returned(None)
    /\ UNCHANGED <<fields, queues, kernel>>

InitSession ==
    /\ GeometryFields
    /\ objects = {}
    /\ gmsh_uncommitted = {}
    /\ gmsh_physical = [d \in 0..3 |-> 0]
    /\ gmsh_calls = <<>>
    /\ live = {}
    /\ finalized = {}
    /\ gmsh_session = <<>>
    /\ call = [op |-> "import"]
    /\ result = Returned(None)

NextSession ==
    \/ \E g \in Geometries : Construct(g)
    \/ \E g \in Geometries : Destroy(g)

SpecSession == InitSession /\ [][NextSession]_vars

(* The shape runs: a curve loop and a surface loop exist to serve as holes, and
   one builder call with arguments of every shape is pending. *)
CircleCalls ==
    [op : {"add_circle"}, x0 : Vectors, radius : 1..MaxExtent, R : MatrixArgs,
     compound : BOOLEAN, num_sections : 1..MaxSections, holes : HolesArgs(AHole),
     make_surface : BOOLEAN]

\* the radii of an ellipsoid
Radii == {<<a, b, c>> : a, b, c \in 1..MaxExtent}

EllipsoidCalls ==
    [op : {"add_ellipsoid"}, x0 : Vectors, radii : Radii, with_volume : BOOLEAN,
     holes : HolesArgs(AVoid)]

TorusCalls ==
    [op : {"_add_torus_extrude_lines"}, irad : 1..MaxExtent, orad : 1..MaxExtent,
     R : TorusMatrices, x0 : Vectors]

PolygonCalls ==
    [op : {"add_polygon"}, X : {Corners(n) : n \in 3..MaxCorners},
     mesh_size : MeshSizeArgs, holes : HolesArgs(AHole), make_surface : BOOLEAN]

BoxCalls ==
    [op : {"add_box"}, x0 : {0}, x1 : 1..MaxExtent, y0 : {0}, y1 : 1..MaxExtent,
     z0 : {0}, z1 : 1..MaxExtent, with_volume : BOOLEAN, holes : HolesArgs(AVoid)]

ShapeCalls == CircleCalls \cup PolygonCalls \cup EllipsoidCalls \cup BoxCalls \cup TorusCalls

InitShapes ==
    /\ GeometryFields
    /\ objects = {AHole, AVoid}
    /\ gmsh_uncommitted = objects
    /\ gmsh_physical = [d \in 0..3 |-> 0]
    /\ gmsh_calls = <<>>
    /\ live = {1}
    /\ finalized = {}
    /\ gmsh_session = <<[fn |-> "initialize", by |-> 1], [fn |-> "model.add", by |-> 1]>>
    /\ call \in ShapeCalls
    /\ result = [status |-> "pending", value |-> None]

NextShapes ==
    \/ AddCircle
    \/ AddPolygon
    \/ AddEllipsoid
    \/ AddBox
    \/ AddTorusExtrudeLines

SpecShapes == InitShapes /\ [][NextShapes]_vars

(* The mesh-size field runs: boundary layers are added and background meshes
   set, in any order. *)
NextFields ==
    \/ \E edges_list \in EdgeLists : AddBoundaryLayer(edges_list)
    \/ \E fs \in FieldLists, operator \in {"Min", "Max"} : SetBackgroundMesh(fs, operator)

SpecFields == Init /\ [][NextFields]_vars

----------------------------------------------------------------------------
(* Properties of the physical-group labels (Spec). *)

\* the largest element of a list of integers, 0 for the empty list
RunningMax(s) ==
    IF s = <<>> THEN 0
    ELSE CHOOSE x \in SeqToSet(s) : \A y \in SeqToSet(s) : y <= x

DirectAllocation == call'.op = "_new_physical_group"

\* C1: whatever labels the _new_physical_group calls were given, and whichever
\* of them failed, the list of taken physical-group ids never holds the same
\* integer twice.
C1_NoSharedSlot ==
    \A i, j \in DOMAIN TAKEN_PHYSICALGROUP_IDS :
        i # j => TAKEN_PHYSICALGROUP_IDS[i] # TAKEN_PHYSICALGROUP_IDS[j]

\* slots are taken and the last call, an explicit integer already among them, was refused
C1_Witness ==
    /\ Len(TAKEN_PHYSICALGROUP_IDS) >= 2
    /\ call.op = "_new_physical_group"
    /\ call.label.t = "int"
    /\ result.status = "AssertionError"

\* what C2 says of one call without label or with a string label, the returned
\* text for a string label being name
C2_Step(name) ==
    (DirectAllocation /\ call'.label.t \in {"None", "str"}) =>
        LET m == RunningMax(TAKEN_PHYSICALGROUP_IDS)
        IN  /\ result'.status = "ok"
            /\ TAKEN_PHYSICALGROUP_IDS' = Append(TAKEN_PHYSICALGROUP_IDS, m + 1)
            /\ RunningMax(TAKEN_PHYSICALGROUP_IDS') = m + 1
            /\ \A i \in DOMAIN TAKEN_PHYSICALGROUP_IDS' :
                   TAKEN_PHYSICALGROUP_IDS'[i] \in Int
            /\ call'.label.t = "None" => result'.value = PyStr(ToString(m + 1))
            /\ call'.label.t = "str" => result'.value = PyStr(name)

\* C2 as written: a call with no label or a string label takes the slot m + 1,
\* m the largest slot taken before (0 when none); with no label the resolved
\* label is m + 1, with a string label the resolved label is that string.
C2_AsWritten == [][C2_Step(call'.label.v)]_vars

\* C2 amended: a call with no label or a string label takes the slot m + 1,
\* m the largest slot taken before (0 when none), and the largest taken slot
\* advances by exactly 1; the string is never recorded as taken; with no label
\* the resolved label is the decimal text of m + 1, with a string label it is
\* that string enclosed in double quotes.
C2_SlotAndQuotedName == [][C2_Step("\"" \o call'.label.v \o "\"")]_vars

\* a string label was given while slots were taken, and the quoted name returned
C2_Witness ==
    /\ call.op = "_new_physical_group"
    /\ call.label = PyStr("inlet")
    /\ result = Returned(PyStr("\"inlet\""))
    /\ Len(TAKEN_PHYSICALGROUP_IDS) >= 2

\* C3: an explicit integer label that is already taken makes the call fail and
\* leaves the taken ids as they were; one that is not taken succeeds and is
\* appended to the taken ids.
C3_ExplicitInteger ==
    [][(DirectAllocation /\ call'.label.t = "int") =>
         LET n == call'.label.v
         IN  IF n \in SeqToSet(TAKEN_PHYSICALGROUP_IDS)
             THEN /\ result'.status = "AssertionError"
                  /\ TAKEN_PHYSICALGROUP_IDS' = TAKEN_PHYSICALGROUP_IDS
             ELSE /\ result'.status = "ok"
                  /\ TAKEN_PHYSICALGROUP_IDS' = Append(TAKEN_PHYSICALGROUP_IDS, n)]_vars

\* an explicit integer was refused: it is among the taken ids
C3_Witness ==
    /\ call.op = "_new_physical_group"
    /\ call.label.t = "int"
    /\ result.status = "AssertionError"
    /\ call.label.v \in SeqToSet(TAKEN_PHYSICALGROUP_IDS)

\* C4 as written: the slot taken by each allocation is never smaller than the
\* slot taken by the allocation before it.
C4_AsWritten ==
    \A i \in DOMAIN TAKEN_PHYSICALGROUP_IDS :
        i > 1 => TAKEN_PHYSICALGROUP_IDS[i - 1] <= TAKEN_PHYSICALGROUP_IDS[i]

\* C4 amended: an allocation with no label or a string label takes a slot
\* greater than every slot taken before it, and once a slot is taken no
\* allocation lowers the largest taken slot; an explicit integer label may take
\* a slot smaller than the one before it.
C4_UnlabelledSlotsGrow ==
    [][(DirectAllocation /\ result'.status = "ok") =>
         /\ call'.label.t \in {"None", "str"} =>
                \A x \in SeqToSet(TAKEN_PHYSICALGROUP_IDS) :
                    TAKEN_PHYSICALGROUP_IDS'[Len(TAKEN_PHYSICALGROUP_IDS')] > x
         /\ TAKEN_PHYSICALGROUP_IDS # <<>> =>
                RunningMax(TAKEN_PHYSICALGROUP_IDS') >= RunningMax(TAKEN_PHYSICALGROUP_IDS)]_vars

\* an explicit integer went below the slot before it, and the unlabelled
\* allocation after it went above both
C4_Witness ==
    /\ Len(TAKEN_PHYSICALGROUP_IDS) = 3
    /\ TAKEN_PHYSICALGROUP_IDS[2] < TAKEN_PHYSICALGROUP_IDS[1]
    /\ TAKEN_PHYSICALGROUP_IDS[3] > TAKEN_PHYSICALGROUP_IDS[1]
    /\ call.op = "_new_physical_group"
    /\ call.label.t \in {"None", "str"}

----------------------------------------------------------------------------
(* Properties of add_physical and the transforms (SpecPhysical). *)

\* the entity list of the add_physical call that has just run
Members == IF call'.entities.t = "list" THEN call'.entities.v ELSE <<call'.entities.v>>

MixedDimensions(ents) == \E i, j \in DOMAIN ents : ents[i].dimension # ents[j].dimension

\* C5: add_physical on entities that do not all have the same dimension fails,
\* consumes no label and issues no kernel call; when the members share one
\* dimension the group is created with that dimension and all member ids (the
\* other ways to fail being a member of a class that is not accepted and an
\* explicit integer label that is taken).
C5_SameDimension ==
    [][call'.op = "add_physical" =>
         /\ MixedDimensions(Members) =>
                /\ result'.status = "AssertionError"
                /\ TAKEN_PHYSICALGROUP_IDS' = TAKEN_PHYSICALGROUP_IDS
                /\ gmsh_physical' = gmsh_physical
                /\ gmsh_calls' = <<>>
         /\ (Members # <<>> /\ ~MixedDimensions(Members)
               /\ \A i \in DOMAIN Members : Members[i].kind # "CurveLoop"
               /\ ~(call'.label.t = "int"
                    /\ call'.label.v \in SeqToSet(TAKEN_PHYSICALGROUP_IDS))) =>
                /\ result'.status = "ok"
                /\ Len(gmsh_calls') = 2
                /\ gmsh_calls'[1].fn = "model.addPhysicalGroup"
                /\ gmsh_calls'[1].dim = Members[1].dimension
                /\ gmsh_calls'[1].tags = [i \in DOMAIN Members |-> Members[i].ID]
                /\ gmsh_calls'[2].fn = "model.setPhysicalName"
                /\ Len(TAKEN_PHYSICALGROUP_IDS') = Len(TAKEN_PHYSICALGROUP_IDS) + 1]_vars

\* a point and a line were passed together after a group had been made: refused
C5_Witness ==
    /\ call.op = "add_physical"
    /\ call.entities.t = "list"
    /\ Len(call.entities.v) = 2
    /\ call.entities.v[1].dimension # call.entities.v[2].dimension
    /\ result.status = "AssertionError"
    /\ gmsh_calls = <<>>
    /\ Len(TAKEN_PHYSICALGROUP_IDS) = 1

\* C8: translate, rotate and symmetrize each issue exactly one kernel call, the
\* kernel operation of the same name on (dimension, id), with the vector as
\* its numbers in the case of translate; they return nothing, create no entity
\* and leave the registry and the queues alone.
C8_SameKernelOperation ==
    [][call'.op \in {"translate", "rotate", "symmetrize"} =>
         /\ Len(gmsh_calls') = 1
         /\ gmsh_calls'[1].fn = "model.geo." \o call'.op
         /\ gmsh_calls'[1].dimTags = <<DimTag(call'.input_entity)>>
         /\ call'.op = "translate" => gmsh_calls'[1].args = call'.vector
         /\ result' = Returned(None)
         /\ UNCHANGED <<fields, queues, objects>>]_vars

\* C9: whenever add_physical has called the kernel's addPhysicalGroup, every
\* entity of the group has been committed by a synchronize since it was created.
C9_TaggedAfterSynchronize ==
    (call.op = "add_physical"
       /\ \E i \in DOMAIN gmsh_calls : gmsh_calls[i].fn = "model.addPhysicalGroup") =>
        LET ents == IF call.entities.t = "list" THEN call.entities.v ELSE <<call.entities.v>>
        IN  \A i \in DOMAIN ents : ents[i] \notin gmsh_uncommitted

----------------------------------------------------------------------------
(* Properties of extrude (SpecExtrude). *)

ExtrudeDone == call.op = "extrude" /\ result.status # "pending"

KernelReached == gmsh_calls # <<>>

\* the layer counts as a sequence: one count is a one-element sequence, none is empty
Normalised(num_layers) ==
    CASE num_layers.t = "int" -> <<num_layers.v>>
      [] num_layers.t = "None" -> <<>>
      [] OTHER -> num_layers.v

\* what C6 says of a finished extrude call with a rotation axis, the angles
\* that may reach the kernel being those below PiUnits and, when positive is
\* asked for, above 0
C6_Angles(positive) ==
    (ExtrudeDone /\ call.rotation_axis # None /\ call.angle # None) =>
        LET a == call.angle.v
            admitted == (positive => 0 < a) /\ a < PiUnits
        IN  /\ ~admitted => result.status # "ok" /\ ~KernelReached
            /\ KernelReached =>
                   /\ admitted
                   /\ gmsh_calls[1].fn = IF call.translation_axis = None
                                         THEN "model.geo.revolve" ELSE "model.geo.twist"
                   /\ gmsh_calls[1].args[Len(gmsh_calls[1].args)] = a
            /\ (admitted /\ call.input_entity.dimension # NoDimension
                  /\ call.point_on_axis # None
                  /\ (call.num_layers = None \/ call.heights = None
                        \/ Len(Normalised(call.num_layers)) = Len(call.heights.v)))
                   => KernelReached /\ result.status = "ok"

\* C6 as written: in the rotation-only and twist modes the kernel call is
\* issued only when 0 < angle < pi; every angle <= 0 and every angle >= pi
\* fails before any kernel call.
C6_AsWritten == C6_Angles(TRUE)

\* C6 amended: in the rotation-only and twist modes the kernel call is issued
\* only when angle < pi; every angle >= pi (pi included) fails before any
\* kernel call; an angle <= 0 is not refused.
C6_BelowPi == C6_Angles(FALSE)

\* a revolution by an angle that is not positive has reached the kernel
C6_Witness ==
    /\ ExtrudeDone
    /\ call.rotation_axis # None
    /\ call.translation_axis = None
    /\ call.angle # None
    /\ call.angle.v <= 0
    /\ KernelReached
    /\ gmsh_calls[1].fn = "model.geo.revolve"

\* what C7 says of a finished extrude call; heights given without a layer
\* count are compared with the empty sequence when strict, dropped otherwise
C7_Layers(strict) ==
    ExtrudeDone =>
        LET layers == Normalised(call.num_layers)
            compared == call.heights # None /\ (strict \/ call.num_layers # None)
        IN  /\ KernelReached => gmsh_calls[1].numElements = layers
            /\ compared =>
                   /\ KernelReached =>
                          /\ Len(call.heights.v) = Len(layers)
                          /\ gmsh_calls[1].heights = call.heights.v
                   /\ Len(call.heights.v) # Len(layers) =>
                          result.status # "ok" /\ ~KernelReached
            /\ (~compared /\ KernelReached) => gmsh_calls[1].heights = <<>>

\* C7 as written: a single layer count is a one-element sequence; whenever
\* heights are given the kernel is reached only if their number equals the
\* number of layer counts (none when the count is absent), and then exactly the
\* given heights are passed; otherwise the call fails before any kernel call.
C7_AsWritten == C7_Layers(TRUE)

\* C7 amended: a single layer count is a one-element sequence; whenever heights
\* are given together with a layer count the kernel is reached only if their
\* number equals the number of layer counts, and then exactly the given heights
\* are passed, otherwise the call fails before any kernel call; heights given
\* without a layer count are dropped, the kernel being called with no heights.
C7_HeightsWithLayers == C7_Layers(FALSE)

\* one count and one height were given and reached the kernel as lists
C7_Witness ==
    /\ ExtrudeDone
    /\ call.num_layers = PyInt(2)
    /\ call.heights = PyList(<<1>>)
    /\ KernelReached
    /\ gmsh_calls[1].numElements = <<2>>
    /\ gmsh_calls[1].heights = <<1>>

----------------------------------------------------------------------------
(* Properties of the kernel session (SpecSession). *)

\* Geometry g has initialized the kernel before call i and not finalized it since
HoldsSessionAt(g, i) ==
    \E j \in 1..(i - 1) :
        /\ gmsh_session[j] = [fn |-> "initialize", by |-> g]
        /\ \A k \in (j + 1)..(i - 1) : gmsh_session[k] # [fn |-> "finalize", by |-> g]

\* C10: at most one Geometry holds an open kernel session, and the kernel is
\* never initialized while a session opened by another Geometry is still open.
C10_OneSession ==
    /\ Cardinality(live) <= 1
    /\ \A i \in DOMAIN gmsh_session :
           gmsh_session[i].fn = "initialize" =>
               \A g \in Geometries \ {gmsh_session[i].by} : ~HoldsSessionAt(g, i)


----------------------------------------------------------------------------
(* Composite shapes: what one builder call leaves in the kernel. *)

\* the kernel calls of the last builder call that went to fn, in order
CallsTo(fn) ==
    LET to(c) == c.fn = fn
    IN  SelectSeq(gmsh_calls, to)

\* the last builder call was op and returned
ShapeDone(op) == call.op = op /\ result.status = "ok"

\* C11: an add_circle call with num_sections = N >= 1 that returns has created
\* N + 1 points, the centre first, and one curve loop of exactly N circle arcs;
\* arc k runs from perimeter point k to perimeter point k + 1 through the
\* centre and the last arc from point N back to point 1, so every arc ends
\* where the next one starts and the loop is closed.
C11_CircleArcsClose ==
    ShapeDone("add_circle") =>
        LET N == call.num_sections
            points == CallsTo("model.geo.addPoint")
            arcs == CallsTo("model.geo.addCircleArc")
            loops == CallsTo("model.geo.addCurveLoop")
            perimeter(k) == points[k + 1].tag
            next(k) == (k % N) + 1
        IN  /\ Len(points) = N + 1
            /\ gmsh_calls[1] = points[1]
            /\ points[1].x.radius = 0
            /\ \A i, j \in DOMAIN points : points[i].tag = points[j].tag => i = j
            /\ Len(arcs) = N
            /\ Len(loops) = 1
            /\ loops[1].curves = [k \in 1..N |-> arcs[k].tag]
            /\ \A k \in 1..N :
                  /\ arcs[k].start = perimeter(k)
                  /\ arcs[k].center = points[1].tag
                  /\ arcs[k].end = perimeter(next(k))
                  /\ arcs[k].end = arcs[next(k)].start

\* a circle of three sections has been built, its three arcs in the kernel
C11_Witness ==
    /\ ShapeDone("add_circle")
    /\ call.num_sections = 3
    /\ Len(CallsTo("model.geo.addCircleArc")) = 3
    /\ CallsTo("model.geo.addCircleArc")[3].end = CallsTo("model.geo.addCircleArc")[1].start


Abs(n) == IF n < 0 THEN 0 - n ELSE n

\* where a signed curve of a curve loop starts and ends, the curves being the
\* kernel calls arcs: a negative tag is the curve traversed from end to start
From(arcs, t) ==
    LET arc == CHOOSE a \in SeqToSet(arcs) : a.tag = Abs(t)
    IN  IF t > 0 THEN arc.start ELSE arc.end

To(arcs, t) ==
    LET arc == CHOOSE a \in SeqToSet(arcs) : a.tag = Abs(t)
    IN  IF t > 0 THEN arc.end ELSE arc.start

\* the signed curves of a loop run head to tail and back to the first one
Closes(arcs, curves) ==
    \A j \in DOMAIN curves :
        To(arcs, curves[j]) = From(arcs, curves[(j % Len(curves)) + 1])

\* C12: an add_ellipsoid call that returns has created exactly 7 points, 12
\* elliptical arcs and 8 curve loops; every loop is exactly 3 signed arcs that
\* close to a cycle; and it has appended exactly two compound groups of
\* dimension 2, of 4 surfaces each, that together partition the 8 surfaces.
C12_EllipsoidCounts ==
    ShapeDone("add_ellipsoid") =>
        LET points == CallsTo("model.geo.addPoint")
            arcs == CallsTo("model.geo.addEllipseArc")
            loops == CallsTo("model.geo.addCurveLoop")
            surfaces == CallsTo("model.geo.addSurfaceFilling")
            tags(s) == {s[i].tag : i \in DOMAIN s}
            group(i) == SeqToSet(COMPOUND_ENTITIES[i][2])
        IN  /\ Len(points) = 7 /\ Cardinality(tags(points)) = 7
            /\ Len(arcs) = 12 /\ Cardinality(tags(arcs)) = 12
            /\ Len(loops) = 8 /\ Cardinality(tags(loops)) = 8
            /\ \A k \in DOMAIN loops :
                  /\ Len(loops[k].curves) = 3
                  /\ \A j \in 1..3 : Abs(loops[k].curves[j]) \in tags(arcs)
                  /\ Closes(arcs, loops[k].curves)
            /\ Len(surfaces) = 8 /\ Cardinality(tags(surfaces)) = 8
            /\ {surfaces[k].loops : k \in DOMAIN surfaces}
                   = {<<loops[k].tag>> : k \in DOMAIN loops}
            /\ Len(COMPOUND_ENTITIES) = 2
            /\ \A i \in 1..2 :
                  /\ COMPOUND_ENTITIES[i][1] = 2
                  /\ Len(COMPOUND_ENTITIES[i][2]) = 4
                  /\ Cardinality(group(i)) = 4
            /\ group(1) \cap group(2) = {}
            /\ group(1) \cup group(2) = tags(surfaces)

\* an ellipsoid without a volume has been built: the 12 arcs are in the kernel
\* and the two compound groups in the queue
C12_Witness ==
    /\ ShapeDone("add_ellipsoid")
    /\ ~call.with_volume
    /\ Len(CallsTo("model.geo.addEllipseArc")) = 12
    /\ Len(COMPOUND_ENTITIES) = 2


\* C13: a torus built by the extrude_lines variant, its cross-section a loop
\* of N curves, issues exactly 3N revolutions, each by 2 pi / 3 (strictly
\* below pi, three of them making 2 pi for each curve); for every curve k the
\* input of round i + 1 is the top entity the kernel returned in round i for
\* the same k, the original curve in round 0; and the one surface loop is
\* built from exactly the 3N swept surfaces.
C13_ChainedRevolutions ==
    ShapeDone("_add_torus_extrude_lines") =>
        LET arcs == CallsTo("model.geo.addCircleArc")
            N == Len(arcs)
            revolutions == CallsTo("model.geo.revolve")
            shells == CallsTo("model.geo.addSurfaceLoop")
            angle(j) == revolutions[j].args[Len(revolutions[j].args)]
            swept(j) == revolutions[j].outDimTags[2]
        IN  /\ N = Len(CallsTo("model.geo.addCurveLoop")[1].curves)
            /\ Len(revolutions) = 3 * N
            /\ \A j \in DOMAIN revolutions :
                  /\ 3 * angle(j) = 2 * PiUnits
                  /\ angle(j) < PiUnits
                  /\ Len(revolutions[j].dimTags) = 1
            /\ \A k \in 1..N : revolutions[k].dimTags[1] = <<1, arcs[k].tag>>
            /\ \A j \in DOMAIN revolutions :
                  j > N => revolutions[j].dimTags[1] = revolutions[j - N].outDimTags[1]
            /\ Len(shells) = 1
            /\ shells[1].surfaces = [j \in 1..(3 * N) |-> swept(j)[2]]
            /\ \A j \in DOMAIN revolutions : swept(j)[1] = 2
            /\ Cardinality({swept(j) : j \in DOMAIN revolutions}) = 3 * N

\* a torus has been built: the last revolution took the top of an earlier one
\* and the volume is in the kernel
C13_Witness ==
    /\ ShapeDone("_add_torus_extrude_lines")
    /\ Len(CallsTo("model.geo.revolve")) = 9
    /\ CallsTo("model.geo.revolve")[9].dimTags[1] = CallsTo("model.geo.revolve")[6].outDimTags[1]
    /\ Len(CallsTo("model.geo.addVolume")) = 1


\* the four builders that take holes, and the flag each one tests
HoleBuilders == {"add_circle", "add_polygon", "add_ellipsoid", "add_box"}

HolesFlag ==
    IF call.op \in {"add_circle", "add_polygon"} THEN call.make_surface
    ELSE call.with_volume

\* none of the builder's other argument checks can fail the pending call
OtherChecksPass ==
    /\ call.op = "add_circle" => call.R = None \/ preserves_circles(call.R)
    /\ call.op = "add_polygon" => call.mesh_size = None \/ Len(call.mesh_size.v) = Len(call.X)

\* C15: add_circle, add_polygon, add_ellipsoid and add_box fail on their holes
\* check, before any point is created or any queue touched, exactly when a
\* non-empty list of holes is supplied while make_surface / with_volume is
\* false; an absent or empty holes list never makes the call fail.
C15_HolesCheck ==
    call.op \in HoleBuilders /\ result.status # "pending" /\ OtherChecksPass =>
        /\ result.status # "ok" <=>
               call.holes # None /\ call.holes.v # <<>> /\ ~HolesFlag
        /\ result.status # "ok" =>
               /\ gmsh_calls = <<>>
               /\ objects = {AHole, AVoid}
               /\ COMPOUND_ENTITIES = <<>>

\* the traversals of the curve with tag t by the curve loops: (loop, position,
\* direction), direction 1 from start to end and -1 from end to start
Traversals(loops, t) ==
    {<<k, j, d>> \in (DOMAIN loops) \X (1..4) \X {1, 0 - 1} :
        j \in DOMAIN loops[k].curves /\ loops[k].curves[j] = d * t}

\* every curve is traversed by exactly two different loops, once in each
\* direction
TwiceOpposite(curves, loops) ==
    \A i \in DOMAIN curves :
        LET ts == Traversals(loops, curves[i].tag)
        IN  /\ Cardinality(ts) = 2
            /\ Cardinality({x[1] : x \in ts}) = 2
            /\ Cardinality({x[3] : x \in ts}) = 2

\* C16: each of the six curve loops of add_box is four signed edges that close
\* to a cycle, and each of the 12 edges is traversed by exactly two of the six
\* loops, once in each direction.
C16_BoxLoopsOpposite ==
    ShapeDone("add_box") =>
        LET edges == CallsTo("model.geo.addLine")
            loops == CallsTo("model.geo.addCurveLoop")
        IN  /\ Len(edges) = 12
            /\ Len(loops) = 6
            /\ \A k \in DOMAIN loops :
                  /\ Len(loops[k].curves) = 4
                  /\ Closes(edges, loops[k].curves)
            /\ TwiceOpposite(edges, loops)

\* the determinant of three vectors of three integers
Det(a, b, c) ==
    a[1] * (b[2] * c[3] - b[3] * c[2])
    - a[2] * (b[1] * c[3] - b[3] * c[1])
    + a[3] * (b[1] * c[2] - b[2] * c[1])

\* C17: of the eight curve loops of add_ellipsoid, each of the 12 arcs is
\* traversed by exactly two, once in each direction, and every loop visits its
\* three extremity points in the order whose orientation, the sign of the
\* determinant of the three axis directions in traversal order, is positive.
C17_EllipsoidOutward ==
    ShapeDone("add_ellipsoid") =>
        LET points == CallsTo("model.geo.addPoint")
            arcs == CallsTo("model.geo.addEllipseArc")
            loops == CallsTo("model.geo.addCurveLoop")
            centre == points[1].x
            x(tag) == (CHOOSE p \in SeqToSet(points) : p.tag = tag).x
            direction(tag) == [i \in 1..3 |-> x(tag)[i] - centre[i]]
            visited(k, j) == direction(From(arcs, loops[k].curves[j]))
        IN  /\ TwiceOpposite(arcs, loops)
            /\ \A k \in DOMAIN loops :
                  Det(visited(k, 1), visited(k, 2), visited(k, 3)) > 0

\* an ellipsoid with its volume has been built: the arc from +x to +y is taken
\* forwards by the first loop and backwards by the second
C17_Witness ==
    /\ ShapeDone("add_ellipsoid")
    /\ call.with_volume
    /\ CallsTo("model.geo.addCurveLoop")[1].curves[1] = CallsTo("model.geo.addEllipseArc")[5].tag
    /\ CallsTo("model.geo.addCurveLoop")[2].curves[2] = 0 - CallsTo("model.geo.addEllipseArc")[5].tag

----------------------------------------------------------------------------
(* The after-sync queue. *)

IsLayer(i) == AFTER_SYNC_QUEUE[i].kind = "BoundaryLayer"

IsSetter(i) == AFTER_SYNC_QUEUE[i].kind = "SetBackgroundMesh"

\* C14 as written: after any sequence of add_boundary_layer and
\* set_background_mesh calls, every boundary-layer entry of the after-sync
\* queue precedes every background-mesh entry.
C14_AsWritten ==
    \A i, j \in DOMAIN AFTER_SYNC_QUEUE : IsLayer(i) /\ IsSetter(j) => i < j

\* C14: the after-sync queue keeps the entries in call order, so a
\* background-mesh entry comes after every boundary layer it lists among its
\* fields (each was returned by an earlier add_boundary_layer call), and
\* flushing in stored order gives those layers their tags before the entry
\* reads them.
C14_FieldsPrecede ==
    \A j \in DOMAIN AFTER_SYNC_QUEUE :
        IsSetter(j) =>
            \A f \in SeqToSet(AFTER_SYNC_QUEUE[j].fields) :
                \E i \in 1..(j - 1) : IsLayer(i) /\ AFTER_SYNC_QUEUE[i].identity = f

\* a boundary layer, a background mesh over it, and a second boundary layer
\* have been queued in this order
C14_Witness ==
    /\ Len(AFTER_SYNC_QUEUE) = 3
    /\ IsLayer(1) /\ IsSetter(2) /\ IsLayer(3)
    /\ AFTER_SYNC_QUEUE[2].fields = <<AFTER_SYNC_QUEUE[1].identity>>

====
